---- MODULE Spec2Model ----
(***************************************************************************)
(* Model of src/main.py: the Upbit listing monitor.                        *)
(*                                                                         *)
(* The program is one sequential thread.  A state of the model is the      *)
(* program blocked in one of its blocking calls (session.get, session.post *)
(* or time.sleep), or at the return of send_telegram_message, or exited.   *)
(* One action is the completion of that call together with all the code    *)
(* executed up to the next blocking call.  A KeyboardInterrupt is          *)
(* delivered while the program is blocked.                                 *)
(*                                                                         *)
(* Tickers are modelled by their rank in the order sorted() uses.          *)
(***************************************************************************)
EXTENDS Integers, Sequences, FiniteSets, TLC

\* ---- bounds of the model ------------------------------------------------
NumTickers == 3
NumChats == 2

\* ---- program constants ----------------------------------------------------
MAX_RETRIES == 3
retries == 3
max_consecutive_errors == 10
CRASH_TEXT_LIMIT == 200
EXIT_OK == 0
EXIT_SIGINT == 130

Tickers == 1..NumTickers
TELEGRAM_CHAT_IDS == 1..NumChats

\* Optional[Set[str]]: None, or a set of tickers (possibly empty).
None == [none |-> TRUE, set |-> {}]
Some(S) == [none |-> FALSE, set |-> S]

\* What get_upbit_markets can return: a set built from the payload (empty
\* when the payload is an empty array or no record has a 'market' field),
\* or None after any caught exception.
FetchResults == {None} \cup {Some(S) : S \in SUBSET Tickers}

\* Outcomes of one session.post: status 200, another status, an exception.
PostOutcomes == {"200", "non200", "exception"}

\* Lengths of str(e) for an unexpected exception.
ErrLens == {0, CRASH_TEXT_LIMIT, CRASH_TEXT_LIMIT + 1}

\* Python truthiness of an Optional[Set]: None and the empty set are falsy.
Truthy_notnone(m) == ~m.none
Truthy(m) == ~m.none /\ m.set # {}

\* line 190: if consecutive_errors >= max_consecutive_errors
EscalationDue_off(n) == n > max_consecutive_errors
EscalationDue(n) == n >= max_consecutive_errors

\* line 194: consecutive_errors = 0 after the escalation message.
AfterEscalation_keep(n) == n
AfterEscalation(n) == 0

\* lines 200-202: if consecutive_errors > 0: consecutive_errors = 0
AfterSuccess_keep(n) == n
AfterSuccess(n) == IF n > 0 THEN 0 ELSE n

\* line 205: new_markets_set != current_markets_set
Changed_additions(new, cur) == new \ cur # {}
Changed_count(new, cur) == Cardinality(new) # Cardinality(cur)
Changed(new, cur) == new # cur

\* line 206: new_listings = new_markets_set - current_markets_set
new_listings_swapped(new, cur) == cur \ new
new_listings(new, cur) == new \ cur

\* lines 205-210: the listings a cycle announces: new_listings when the
\* fetched set differs from the current one, nothing otherwise.
ListingsToSend_fetched(new, cur) == new
ListingsToSend(new, cur) ==
    IF Changed(new, cur) THEN new_listings(new, cur) ELSE {}

\* line 207: delisted_pairs = current_markets_set - new_markets_set
delisted_pairs(new, cur) == cur \ new

\* line 241: current_markets_set = new_markets_set
NextCurrent_merge(new, cur) == cur \cup new
NextCurrent(new, cur) == new

\* lines 223/232 and 241: the value send_telegram_message returned for the
\* listing message is discarded; the fetched set is adopted whatever it was.
AdoptAfterSend_ifdelivered(all_ok, new, cur) == IF all_ok THEN new ELSE cur
AdoptAfterSend(all_ok, new, cur) == NextCurrent(new, cur)

SetMin(S) == CHOOSE x \in S : \A y \in S : x <= y
SetMax(S) == CHOOSE x \in S : \A y \in S : x >= y

RECURSIVE sorted_desc(_)
sorted_desc(S) == IF S = {} THEN << >>
                  ELSE << SetMax(S) >> \o sorted_desc(S \ {SetMax(S)})

\* line 225: sorted(new_listings), ascending.
RECURSIVE sorted(_)
sorted(S) == IF S = {} THEN << >>
             ELSE << SetMin(S) >> \o sorted(S \ {SetMin(S)})

\* line 250: str(e)[:200]
Truncate_none(len) == len
Truncate(len) == IF len > CRASH_TEXT_LIMIT THEN CRASH_TEXT_LIMIT ELSE len

\* ---- messages ---------------------------------------------------------------
\* kind: which text; pairs: the tickers it lists, in order; n: the number
\* it reports (pair count, error count, length of the error text).
Msg(k, p, c) == [kind |-> k, pairs |-> p, n |-> c]
NoMsg == Msg("none", << >>, 0)

ListingMessage_first(nl) == Msg("listing_single", << SetMin(nl) >>, 0)

\* lines 215-232: the listing message for a non-empty set of new listings.
ListingMessage(nl) ==
    IF Cardinality(nl) = 1
    THEN Msg("listing_single", << CHOOSE p \in nl : TRUE >>, 0)
    ELSE Msg("listing_batch", sorted(nl), 0)

\* lines 92-93: if not sent_to_this_chat: all_successful = False
MarkOutcome_last(all_ok, sent_to_this_chat) == sent_to_this_chat
MarkOutcome(all_ok, sent_to_this_chat) ==
    IF ~sent_to_this_chat THEN FALSE ELSE all_ok

\* lines 142 and 149: attempt a of range(MAX_RETRIES) is not the last one.
MoreBootAttempts_extra(a) == a < MAX_RETRIES
MoreBootAttempts(a) == a < MAX_RETRIES - 1

\* lines 77-82: the attempts for a chat end at the first status 200 (break)
\* or when range(retries) is exhausted; att is the index of the attempt made.
ChatDone_nobreak(sent_to_this_chat, att) == att >= retries - 1
ChatDone(sent_to_this_chat, att) ==
    sent_to_this_chat \/ att >= retries - 1

\* line 169: return after the bootstrap failure notification (the function
\* ends there; the other value would fall through to the startup message).
AfterBootFailure_fallthrough == "loop"
AfterBootFailure == "return"

VARIABLES
    pc,                   \* where the program is blocked
    attempt,              \* wait_for_initial_markets: loop index
    current_markets_set,  \* monitor_upbit_listings: Optional[Set]
    new_markets_set,      \* monitor_upbit_listings: last fetch result
    consecutive_errors,   \* monitor_upbit_listings
    session_open,         \* the module-level requests.Session
    message,              \* send_telegram_message: message_text
    chat_idx,             \* send_telegram_message: position in TELEGRAM_CHAT_IDS
    send_attempt,         \* send_telegram_message: inner loop index
    all_successful,       \* send_telegram_message
    ret,                  \* where send_telegram_message returns to
    \* history, for the properties only
    attempts,             \* posts made to each chat in the current send
    delivered,            \* chats that answered 200 in the current send
    cycleMsgs,            \* messages dispatched by the current loop cycle
    cycleStart,           \* current_markets_set when the cycle's fetch returned
    lastFetched,          \* last non-None result of get_upbit_markets
    lastNonEmpty,         \* last non-empty result of get_upbit_markets
    bootFails,            \* failed bootstrap fetches
    bootFetches,          \* bootstrap fetches issued and returned
    err_len,              \* length of str(e) of the unexpected exception
    pinned,               \* tickers the exchange lists from now on
    announced_times,      \* listing messages naming a ticker since pinned
    loopFetches,          \* has the Running loop issued a fetch
    failRun,              \* failed loop fetches since last success/escalation
    afterFailures,        \* the cycle's successful fetch ended a run of failures
    logged_new,           \* new_listings as computed by the cycle (line 206)
    logged_delisted,      \* delisted_pairs as computed by the cycle (line 207)
    sent_count,           \* dispatches of each once-only notification
    ever_sent,            \* kinds of notification dispatched so far
    close_count,          \* calls of session.close
    used_closed,          \* the session was used after being closed
    exit_code,            \* process exit code (meaningful when exited)
    exit_path             \* how the program ended

sendVars == << message, chat_idx, send_attempt, all_successful, ret,
               attempts, delivered >>
histVars == << cycleMsgs, cycleStart, lastFetched, lastNonEmpty, bootFails,
               bootFetches, loopFetches, failRun, afterFailures, logged_new,
               logged_delisted >>
exitVars == << session_open, close_count, exit_code, exit_path >>
vars == << pc, attempt, current_markets_set, new_markets_set,
           consecutive_errors, session_open, message, chat_idx, send_attempt,
           all_successful, ret, attempts, delivered, cycleMsgs, cycleStart,
           lastFetched, lastNonEmpty, bootFails, loopFetches, failRun,
           afterFailures, logged_new, logged_delisted, bootFetches, err_len,
           pinned, announced_times, sent_count, ever_sent, close_count, used_closed, exit_code,
           exit_path >>

OnceKinds == {"boot_fail", "startup", "stop", "crash"}
KindClass(k) == IF k \in {"listing_single", "listing_batch"} THEN "listing"
                ELSE k

Init ==
    /\ pc = "boot_fetch"
    /\ attempt = 0
    /\ current_markets_set = None
    /\ new_markets_set = None
    /\ consecutive_errors = 0
    /\ session_open = TRUE
    /\ message = NoMsg
    /\ chat_idx = 0
    /\ send_attempt = 0
    /\ all_successful = TRUE
    /\ ret = "none"
    /\ attempts = [c \in TELEGRAM_CHAT_IDS |-> 0]
    /\ delivered = [c \in TELEGRAM_CHAT_IDS |-> FALSE]
    /\ cycleMsgs = << >>
    /\ cycleStart = None
    /\ lastFetched = None
    /\ lastNonEmpty = None
    /\ bootFails = 0
    /\ bootFetches = 0
    /\ err_len = 0
    /\ pinned = {}
    /\ announced_times = [t \in Tickers |-> 0]
    /\ loopFetches = FALSE
    /\ failRun = 0
    /\ afterFailures = FALSE
    /\ logged_new = {}
    /\ logged_delisted = {}
    /\ sent_count = [k \in OnceKinds |-> 0]
    /\ ever_sent = {}
    /\ close_count = 0
    /\ used_closed = FALSE
    /\ exit_code = EXIT_OK
    /\ exit_path = "running"

\* A use of the shared session by session.get or session.post.
UseSession == used_closed' = (used_closed \/ ~session_open)

\* send_telegram_message(msg) is called (lines 65-79): the locals are
\* initialised and the first post is issued; to is where the caller goes on.
Dispatch(msg, to) ==
    /\ pc' = "post"
    /\ message' = msg
    /\ chat_idx' = 1
    /\ send_attempt' = 0
    /\ all_successful' = TRUE
    /\ ret' = to
    /\ attempts' = [c \in TELEGRAM_CHAT_IDS |-> 0]
    /\ delivered' = [c \in TELEGRAM_CHAT_IDS |-> FALSE]
    /\ ever_sent' = ever_sent \cup {KindClass(msg.kind)}
    /\ sent_count' = IF msg.kind \in OnceKinds
                     THEN [sent_count EXCEPT ![msg.kind] = @ + 1]
                     ELSE sent_count

NoDispatch == UNCHANGED << sendVars, ever_sent, sent_count >>

\* The tickers a message names.
Named(msg) == {msg.pairs[i] : i \in 1..Len(msg.pairs)}

\* What get_upbit_markets can return now: None, or a set built from the
\* exchange's payload, which holds every ticker the exchange keeps listed.
ObtainableResults == {r \in FetchResults : r.none \/ pinned \subseteq r.set}

\* History of get_upbit_markets returning r.
Fetched(r) ==
    /\ lastFetched' = IF r.none THEN lastFetched ELSE r
    /\ lastNonEmpty' = IF Truthy(r) THEN r ELSE lastNonEmpty
    /\ UseSession

\* ---- wait_for_initial_markets and the head of monitor_upbit_listings ------

\* lines 144-153 and 163-176: a bootstrap fetch returns.  A truthy result
\* becomes current_markets_set and the startup message is dispatched; a
\* falsy one is retried after a sleep, and after the last attempt the
\* function returns None and the failure message is dispatched.
BootFetch ==
    /\ pc = "boot_fetch"
    /\ bootFetches' = bootFetches + 1
    /\ \E r \in ObtainableResults :
        /\ Fetched(r)
        /\ IF Truthy(r)
           THEN /\ current_markets_set' = r
                /\ Dispatch(Msg("startup", << >>, Cardinality(r.set)), "loop")
                /\ UNCHANGED bootFails
           ELSE /\ bootFails' = bootFails + 1
                /\ IF MoreBootAttempts(attempt)
                   THEN /\ pc' = "boot_sleep"
                        /\ NoDispatch
                        /\ UNCHANGED current_markets_set
                   ELSE /\ current_markets_set' = None
                        /\ Dispatch(Msg("boot_fail", << >>, 0), AfterBootFailure)
    /\ UNCHANGED << pinned, announced_times, err_len, attempt, new_markets_set, consecutive_errors, exitVars,
                    cycleMsgs, cycleStart, loopFetches, failRun, afterFailures,
                    logged_new, logged_delisted >>

\* line 151: time.sleep(RETRY_DELAY) returns; next iteration of the for loop.
BootSleep ==
    /\ pc = "boot_sleep"
    /\ attempt' = attempt + 1
    /\ pc' = "boot_fetch"
    /\ UNCHANGED << pinned, announced_times, err_len, current_markets_set, new_markets_set, consecutive_errors,
                    sendVars, histVars, exitVars, sent_count, ever_sent,
                    used_closed >>

\* ---- send_telegram_message ---------------------------------------------------

\* lines 79-94: one session.post returns with outcome o.  Status 200 ends
\* the attempts for this chat; otherwise the attempt is retried after a
\* sleep while attempts remain.  When the attempts for a chat are over the
\* outcome is folded into all_successful and the next chat is started, or
\* the function reaches its return.
Post ==
    /\ pc = "post"
    /\ \E o \in PostOutcomes :
        LET sent_to_this_chat == (o = "200")
            chatDone == ChatDone(sent_to_this_chat, send_attempt)
        IN  /\ attempts' = [attempts EXCEPT ![chat_idx] = @ + 1]
            /\ delivered' = [delivered EXCEPT ![chat_idx] = @ \/ sent_to_this_chat]
            /\ IF ~chatDone
               THEN /\ pc' = "retry_sleep"
                    /\ UNCHANGED << chat_idx, send_attempt, all_successful >>
               ELSE /\ all_successful' = MarkOutcome(all_successful, sent_to_this_chat)
                    /\ IF chat_idx < NumChats
                       THEN /\ chat_idx' = chat_idx + 1
                            /\ send_attempt' = 0
                            /\ pc' = "post"
                       ELSE /\ pc' = "send_return"
                            /\ UNCHANGED << chat_idx, send_attempt >>
    /\ UseSession
    /\ UNCHANGED << pinned, announced_times, err_len, attempt, current_markets_set, new_markets_set,
                    consecutive_errors, message, ret, histVars, exitVars,
                    sent_count, ever_sent >>

\* line 90: time.sleep(1) returns; next attempt for the same chat.
RetrySleep ==
    /\ pc = "retry_sleep"
    /\ send_attempt' = send_attempt + 1
    /\ pc' = "post"
    /\ UNCHANGED << pinned, announced_times, err_len, attempt, current_markets_set, new_markets_set,
                    consecutive_errors, message, chat_idx, all_successful, ret,
                    attempts, delivered, histVars, exitVars, sent_count,
                    ever_sent, used_closed >>

\* The locals of send_telegram_message go out of scope.
ClearSend ==
    /\ message' = NoMsg
    /\ chat_idx' = 0
    /\ send_attempt' = 0
    /\ all_successful' = TRUE
    /\ ret' = "none"
    /\ attempts' = [c \in TELEGRAM_CHAT_IDS |-> 0]
    /\ delivered' = [c \in TELEGRAM_CHAT_IDS |-> FALSE]

\* line 252: finally: session.close(); the function then returns and the
\* script ends.  The handler's `e` is unbound once the handler is left.
Finally(code) ==
    /\ err_len' = 0
    /\ session_open' = FALSE
    /\ close_count' = close_count + 1
    /\ pc' = "exited"
    /\ exit_code' = code

\* line 96: return all_successful.  Every caller discards the value and
\* goes on: line 169 (return), lines 178-183 (enter the loop), lines 194-196
\* (reset the counter, back off), lines 241-243 (adopt the fetched set,
\* sleep), line 252 (finally, after either handler).
SendReturn ==
    /\ pc = "send_return"
    /\ ClearSend
    /\ CASE ret = "return" ->
              /\ UNCHANGED err_len
              /\ pc' = "exited"
              /\ exit_code' = EXIT_OK
              /\ exit_path' = "boot_failed"
              /\ UNCHANGED << current_markets_set, consecutive_errors,
                              session_open, close_count >>
         [] ret = "loop" ->
              /\ UNCHANGED err_len
              /\ pc' = "loop_fetch"
              /\ consecutive_errors' = 0
              /\ UNCHANGED << current_markets_set, exitVars >>
         [] ret = "backoff" ->
              /\ UNCHANGED err_len
              /\ pc' = "backoff_sleep"
              /\ consecutive_errors' = AfterEscalation(consecutive_errors)
              /\ UNCHANGED << current_markets_set, exitVars >>
         [] ret = "update" ->
              /\ UNCHANGED err_len
              /\ pc' = "loop_sleep"
              /\ current_markets_set' =
                    Some(AdoptAfterSend(all_successful, new_markets_set.set,
                                        current_markets_set.set))
              /\ UNCHANGED << consecutive_errors, exitVars >>
         [] ret = "finally" ->
              /\ Finally(EXIT_OK)
              /\ UNCHANGED << current_markets_set, consecutive_errors, exit_path >>
    /\ UNCHANGED << pinned, announced_times, attempt, new_markets_set, histVars, sent_count, ever_sent,
                    used_closed >>

\* ---- the Running loop (lines 181-243) -----------------------------------------

EscalatedInCycle ==
    \E i \in 1..Len(cycleMsgs) : cycleMsgs[i].kind = "escalation"

\* lines 183-243: the loop's fetch returns r.  A falsy r is counted and,
\* when the count reaches the threshold, the escalation message is
\* dispatched; the cycle then backs off.  A truthy r resets the counter and
\* is compared with current_markets_set: new listings are announced in one
\* message, and a changed set is adopted (after the message, if any).
LoopFetch ==
    /\ pc = "loop_fetch"
    /\ \E r \in ObtainableResults :
        LET cur == current_markets_set.set
            nl  == ListingsToSend(r.set, cur)
            n   == consecutive_errors + 1
        IN  /\ Fetched(r)
            /\ new_markets_set' = r
            /\ cycleStart' = current_markets_set
            /\ IF ~Truthy(r)
               THEN /\ failRun' = (IF EscalatedInCycle THEN 0 ELSE failRun) + 1
                    /\ afterFailures' = FALSE
                    /\ UNCHANGED announced_times
                    /\ logged_new' = {}
                    /\ logged_delisted' = {}
                    /\ UNCHANGED current_markets_set
                    /\ IF EscalationDue(n)
                       THEN /\ consecutive_errors' = n
                            /\ cycleMsgs' = << Msg("escalation", << >>, n) >>
                            /\ Dispatch(Msg("escalation", << >>, n), "backoff")
                       ELSE /\ consecutive_errors' = n
                            /\ cycleMsgs' = << >>
                            /\ pc' = "backoff_sleep"
                            /\ NoDispatch
               ELSE /\ failRun' = 0
                    /\ afterFailures' = (~EscalatedInCycle /\ failRun > 0)
                    /\ consecutive_errors' = AfterSuccess(consecutive_errors)
                    /\ logged_new' = IF Changed(r.set, cur)
                                     THEN new_listings(r.set, cur) ELSE {}
                    /\ logged_delisted' = IF Changed(r.set, cur)
                                          THEN delisted_pairs(r.set, cur) ELSE {}
                    /\ announced_times' =
                          [t \in Tickers |->
                             IF nl # {} /\ t \in pinned
                                        /\ t \in Named(ListingMessage(nl))
                             THEN announced_times[t] + 1
                             ELSE announced_times[t]]
                    /\ IF nl # {}
                       THEN /\ cycleMsgs' = << ListingMessage(nl) >>
                            /\ Dispatch(ListingMessage(nl), "update")
                            /\ UNCHANGED current_markets_set
                       ELSE /\ cycleMsgs' = << >>
                            /\ pc' = "loop_sleep"
                            /\ NoDispatch
                            /\ current_markets_set' =
                                  IF Changed(r.set, cur)
                                  THEN Some(NextCurrent(r.set, cur))
                                  ELSE current_markets_set
    /\ loopFetches' = TRUE
    /\ UNCHANGED << pinned, err_len, attempt, bootFails, bootFetches, exitVars >>

\* line 196: time.sleep(CHECK_INTERVAL_SECONDS * 3) returns; continue.
BackoffSleep ==
    /\ pc = "backoff_sleep"
    /\ pc' = "loop_fetch"
    /\ UNCHANGED << pinned, announced_times, err_len, attempt, current_markets_set, new_markets_set,
                    consecutive_errors, sendVars, histVars, exitVars,
                    sent_count, ever_sent, used_closed >>

\* line 243: time.sleep(CHECK_INTERVAL_SECONDS) returns; next iteration.
LoopSleep ==
    /\ pc = "loop_sleep"
    /\ pc' = "loop_fetch"
    /\ UNCHANGED << pinned, announced_times, err_len, attempt, current_markets_set, new_markets_set,
                    consecutive_errors, sendVars, histVars, exitVars,
                    sent_count, ever_sent, used_closed >>

\* ---- exceptions ------------------------------------------------------------------

Blocked == pc \in {"boot_fetch", "boot_sleep", "post", "retry_sleep",
                   "loop_fetch", "backoff_sleep", "loop_sleep"}
Sending == pc \in {"post", "retry_sleep", "send_return"}

\* The program is inside the try block of lines 181-243.
InTry == \/ pc \in {"loop_fetch", "backoff_sleep", "loop_sleep"}
         \/ Sending /\ ret \in {"backoff", "update"}

\* The program is inside one of the handlers of lines 245-250.
InHandler == Sending /\ ret = "finally"

\* lines 245-247: KeyboardInterrupt raised inside the try block; neither
\* get_upbit_markets nor send_telegram_message catches it (they catch
\* Exception).  The stop message is dispatched.
InterruptInTry ==
    /\ Blocked /\ InTry
    /\ Dispatch(Msg("stop", << >>, 0), "finally")
    /\ exit_path' = "stopped"
    /\ UNCHANGED << pinned, announced_times, err_len, attempt, current_markets_set, new_markets_set,
                    consecutive_errors, histVars, session_open, close_count,
                    exit_code, used_closed >>

\* lines 163-176: KeyboardInterrupt raised before the try block is entered
\* (bootstrap fetch or sleep, failure or startup message).  Nothing catches
\* it: the interpreter ends with the traceback.
InterruptOutsideTry ==
    /\ Blocked /\ ~InTry /\ ~InHandler
    /\ pc' = "exited"
    /\ exit_code' = EXIT_SIGINT
    /\ exit_path' = "interrupted_outside_try"
    /\ UNCHANGED << pinned, announced_times, err_len, attempt, current_markets_set, new_markets_set,
                    consecutive_errors, sendVars, histVars, session_open,
                    close_count, sent_count, ever_sent, used_closed >>

\* lines 247-252: KeyboardInterrupt raised while a handler is sending its
\* message: it leaves the handler, the finally clause runs, and the
\* exception ends the interpreter.
InterruptInHandler ==
    /\ Blocked /\ InHandler
    /\ Finally(EXIT_SIGINT)
    /\ exit_path' = "interrupted_in_handler"
    /\ UNCHANGED << pinned, announced_times, attempt, current_markets_set, new_markets_set,
                    consecutive_errors, sendVars, histVars, sent_count,
                    ever_sent, used_closed >>

\* lines 248-250: an exception other than KeyboardInterrupt is raised by the
\* loop body after a fetch returned (for one, sorted() at line 225 raises
\* TypeError when the payload's market values are not mutually orderable;
\* get_upbit_markets does not check their type).  len is the length of
\* str(e).  The crash message carries the truncated text.
UnexpectedError ==
    /\ pc = "loop_fetch"
    /\ \E len \in ErrLens :
          /\ err_len' = len
          /\ Dispatch(Msg("crash", << >>, Truncate(len)), "finally")
    /\ exit_path' = "crashed"
    /\ UseSession
    /\ loopFetches' = TRUE
    /\ UNCHANGED << pinned, announced_times, attempt, current_markets_set, new_markets_set,
                    consecutive_errors, cycleMsgs, cycleStart, lastFetched,
                    lastNonEmpty, bootFails, bootFetches, failRun, afterFailures,
                    logged_new,
                    logged_delisted, session_open,
                    close_count, exit_code >>

Next ==
    \/ BootFetch
    \/ BootSleep
    \/ Post
    \/ RetrySleep
    \/ SendReturn
    \/ LoopFetch
    \/ BackoffSleep
    \/ LoopSleep
    \/ InterruptInTry
    \/ InterruptOutsideTry
    \/ InterruptInHandler
    \/ UnexpectedError

Spec == Init /\ [][Next]_vars

\* ---- the monitor left running, with an exchange that keeps tickers listed --

\* The exchange lists ticker t, which its last payload did not hold, and
\* keeps it listed from now on.  The program sees the exchange only through
\* line 108, so the listing is placed right before the loop's next fetch (a
\* listing during bootstrapping is in current from the start).  A run
\* follows one such ticker.
Pin ==
    /\ pc = "loop_fetch"
    /\ pinned = {}
    /\ \E t \in Tickers :
          /\ t \notin lastFetched.set
          /\ pinned' = pinned \cup {t}
    /\ UNCHANGED << pc, attempt, current_markets_set, new_markets_set,
                    consecutive_errors, sendVars, histVars, exitVars, err_len,
                    announced_times, sent_count, ever_sent, used_closed >>

\* A loop fetch that returns a non-empty set.
LoopFetchOk == LoopFetch /\ Truthy(new_markets_set')

\* The program's own steps: every blocking call returns (session.get and
\* session.post have timeouts, the sleeps are finite).
Step ==
    \/ BootFetch
    \/ BootSleep
    \/ Post
    \/ RetrySleep
    \/ SendReturn
    \/ LoopFetch
    \/ BackoffSleep
    \/ LoopSleep

\* No interrupt and no unexpected exception.
LiveNext == Step \/ Pin

\* The program keeps taking steps, and loop fetches do not fail for ever.
LiveSpec ==
    /\ Init
    /\ [][LiveNext]_vars
    /\ WF_vars(Step)
    /\ SF_vars(LoopFetchOk)

TypeOK ==
    /\ pc \in {"boot_fetch", "boot_sleep", "post", "retry_sleep", "send_return",
               "loop_fetch", "backoff_sleep", "loop_sleep", "exited"}
    /\ attempt \in 0..(MAX_RETRIES - 1)
    /\ current_markets_set \in FetchResults
    /\ new_markets_set \in FetchResults
    /\ consecutive_errors \in 0..max_consecutive_errors
    /\ session_open \in BOOLEAN
    /\ chat_idx \in 0..NumChats
    /\ send_attempt \in 0..(retries - 1)
    /\ all_successful \in BOOLEAN
    /\ ret \in {"none", "return", "loop", "backoff", "update", "finally"}
    /\ close_count \in 0..1
    /\ exit_code \in {EXIT_OK, EXIT_SIGINT}

\* ---- properties ----------------------------------------------------------------

\* The program is in the Running loop and no fetched set is waiting to be
\* adopted: it is about to fetch, sleeping, backing off, or sending the
\* startup or the escalation message.
AtRest ==
    \/ pc \in {"loop_fetch", "backoff_sleep", "loop_sleep"}
    \/ Sending /\ ret \in {"loop", "backoff"}

\* The current cycle's fetch returned a non-empty set.
CycleSucceeded == loopFetches /\ Truthy(new_markets_set)

\* The tickers the current cycle's fetch added to the set the cycle began with.
CycleAdded == new_markets_set.set \ cycleStart.set

Ascending(p) == \A i \in 1..(Len(p) - 1) : p[i] < p[i + 1]
Range(p) == {p[i] : i \in 1..Len(p)}

\* C1 as stated: whenever the Running loop is at rest, current_markets_set
\* equals the set returned by the most recent fetch that returned a set
\* (get_upbit_markets returned something other than None).
C1_CurrentIsLastFetched ==
    AtRest => current_markets_set = lastFetched

\* C1 amended: whenever the Running loop is at rest, current_markets_set is
\* non-empty and equals the set returned by the most recent fetch that
\* returned a non-empty set; a fetch returning None or the empty set never
\* replaces it.
C1_CurrentIsLastNonEmptyFetched ==
    AtRest => /\ Truthy(current_markets_set)
              /\ current_markets_set = lastNonEmpty

\* The loop fetched an empty set, counted it as a failure and kept the
\* current set.
C1_Witness ==
    /\ pc = "backoff_sleep"
    /\ lastFetched = Some({})
    /\ current_markets_set = lastNonEmpty
    /\ Truthy(current_markets_set)
    /\ new_markets_set = Some({})
    /\ consecutive_errors = 1

\* C2: in a run of k consecutive failed loop fetches since the last success
\* or escalation, no message is dispatched by a failed cycle while
\* k < max_consecutive_errors; at k = max_consecutive_errors exactly one
\* escalation message is dispatched and the counter is 0 once the cycle
\* backs off; the run never grows past the threshold.
C2_EscalationExactlyAtThreshold ==
    /\ failRun <= max_consecutive_errors
    /\ failRun < max_consecutive_errors => ~EscalatedInCycle
    /\ (loopFetches /\ ~Truthy(new_markets_set) /\ failRun < max_consecutive_errors)
          => cycleMsgs = << >>
    /\ failRun = max_consecutive_errors =>
          /\ Len(cycleMsgs) = 1
          /\ cycleMsgs[1].kind = "escalation"
          /\ pc \in {"backoff_sleep", "loop_fetch"} => consecutive_errors = 0

\* The threshold-th consecutive failure has escalated and the cycle backs off.
C2_Witness ==
    /\ pc = "backoff_sleep"
    /\ failRun = max_consecutive_errors
    /\ EscalatedInCycle
    /\ consecutive_errors = 0

\* C3: when send_telegram_message returns, its result is True exactly when
\* every chat answered 200 to one of its attempts, and every chat has had at
\* least one attempt.
C3_AllOrNothingAndNoAbort ==
    pc = "send_return" =>
        /\ all_successful <=> (\A c \in TELEGRAM_CHAT_IDS : delivered[c])
        /\ \A c \in TELEGRAM_CHAT_IDS : attempts[c] >= 1

\* The first chat failed all its attempts, the last one was still served and
\* answered 200, and the result is False.
C3_Witness ==
    /\ pc = "send_return"
    /\ ~all_successful
    /\ ~delivered[1]
    /\ attempts[1] = retries
    /\ delivered[NumChats]
    /\ attempts[NumChats] >= 1

\* C4: once MAX_RETRIES bootstrap fetches have failed, the loop is never
\* entered and no fetch follows; the failure message has been dispatched
\* exactly once and no other kind of message is ever dispatched.
C4_BootstrapFailureNeverRuns ==
    bootFails = MAX_RETRIES =>
        /\ ~loopFetches
        /\ pc \in {"post", "retry_sleep", "send_return", "exited"}
        /\ Sending => ret = "return"
        /\ sent_count = [k \in OnceKinds |->
                            IF k = "boot_fail" THEN 1 ELSE 0]
        /\ ever_sent = {"boot_fail"}
        /\ cycleMsgs = << >>
        /\ current_markets_set = None

\* All bootstrap fetches failed, the failure message was sent, the program
\* ended.
C4_Witness ==
    /\ pc = "exited"
    /\ bootFails = MAX_RETRIES
    /\ exit_path = "boot_failed"
    /\ sent_count["boot_fail"] = 1

\* C5: when the program has ended, session.close has been called exactly
\* once, and the session was never used after it.
C5_SessionClosedOnceOnEveryExit ==
    /\ ~used_closed
    /\ pc = "exited" => close_count = 1 /\ ~session_open

\* C6: when the program has ended because of a KeyboardInterrupt delivered
\* during bootstrapping, the startup message or the loop, the stop message
\* has been dispatched.
C6_InterruptDispatchesStop ==
    (pc = "exited" /\ exit_path \in {"stopped", "interrupted_outside_try"})
        => "stop" \in ever_sent

\* C7: in a cycle whose fetch returned a set equal to the current one, the
\* cycle dispatches no message and the current set stays as it was.
C7_EqualSetsNoNotification ==
    (CycleSucceeded /\ new_markets_set = cycleStart) =>
        /\ cycleMsgs = << >>
        /\ current_markets_set = cycleStart
        /\ Sending => InHandler

\* A cycle fetched the set it already had and went to sleep.
C7_Witness ==
    /\ pc = "loop_sleep"
    /\ CycleSucceeded
    /\ new_markets_set = cycleStart
    /\ cycleMsgs = << >>

\* C8: in a cycle whose fetch added tickers, exactly one message is
\* dispatched: the single-pair message naming the ticker when one was added,
\* the batched message listing exactly the added tickers in ascending order
\* when several were; when the cycle sleeps, current is the fetched set.
C8_OneListingMessage ==
    (CycleSucceeded /\ CycleAdded # {}) =>
        /\ Len(cycleMsgs) = 1
        /\ IF Cardinality(CycleAdded) = 1
           THEN /\ cycleMsgs[1].kind = "listing_single"
                /\ Range(cycleMsgs[1].pairs) = CycleAdded
                /\ Len(cycleMsgs[1].pairs) = 1
           ELSE /\ cycleMsgs[1].kind = "listing_batch"
                /\ Range(cycleMsgs[1].pairs) = CycleAdded
                /\ Len(cycleMsgs[1].pairs) = Cardinality(CycleAdded)
                /\ Ascending(cycleMsgs[1].pairs)
        /\ pc = "loop_sleep" => current_markets_set = new_markets_set

\* current = {1}, fetched = {1, 2, 3}: the batched message lists 2, 3 and
\* the fetched set has been adopted.
C8_Witness ==
    /\ pc = "loop_sleep"
    /\ cycleStart = Some({1})
    /\ new_markets_set = Some({1, 2, 3})
    /\ cycleMsgs = << Msg("listing_batch", << 2, 3 >>, 0) >>
    /\ current_markets_set = new_markets_set

\* C9: when a cycle whose fetch returned a non-empty set different from the
\* current one goes to sleep, current is the fetched set, also when the two
\* sets have the same size.
C9_ChangedSetAdopted ==
    (pc = "loop_sleep" /\ CycleSucceeded /\ new_markets_set # cycleStart)
        => current_markets_set = new_markets_set

\* A net-zero change (one ticker in, another out) was adopted.
C9_Witness ==
    /\ pc = "loop_sleep"
    /\ CycleSucceeded
    /\ new_markets_set # cycleStart
    /\ Cardinality(new_markets_set.set) = Cardinality(cycleStart.set)
    /\ current_markets_set = new_markets_set

\* C10: a program ended by the stop handler exits with code 0 and the
\* session closed; a program ended by the crash handler exits with a
\* non-zero code, the session closed and the crash message dispatched.
C10_ExitCodeReflectsTerminalState ==
    pc = "exited" =>
        /\ exit_path = "stopped" =>
              exit_code = EXIT_OK /\ close_count = 1
        /\ exit_path = "crashed" =>
              exit_code # EXIT_OK /\ close_count = 1 /\ "crash" \in ever_sent

\* C11: a cycle whose fetch returned a non-empty set leaves the counter at 0
\* and dispatches no escalation; the counter always equals the number of
\* failed fetches since the last success or escalation (or is 0 once the
\* escalation of a full run has been sent), so failures before a success
\* count towards no later escalation.
C11_CounterIsConsecutive ==
    /\ CycleSucceeded => consecutive_errors = 0 /\ ~EscalatedInCycle
    /\ \/ consecutive_errors = failRun
       \/ failRun = max_consecutive_errors /\ consecutive_errors = 0
    /\ afterFailures => CycleSucceeded

\* Failed fetches short of the threshold, then a success: counter 0,
\* nothing sent by the cycle, no escalation ever sent.
C11_Witness ==
    /\ pc = "loop_sleep"
    /\ CycleSucceeded
    /\ afterFailures
    /\ consecutive_errors = 0
    /\ failRun = 0
    /\ cycleMsgs = << >>
    /\ "escalation" \notin ever_sent

\* C12 as stated: whenever a cycle computes new_listings and delisted_pairs
\* from the fetched set B and the current set A, the two are disjoint and
\* A \cup delisted_pairs = B \cup new_listings.
C12_DiffAlgebraAsStated ==
    (CycleSucceeded /\ new_markets_set # cycleStart) =>
        /\ logged_new \cap logged_delisted = {}
        /\ cycleStart.set \cup logged_delisted
              = new_markets_set.set \cup logged_new

\* C12 amended: whenever a cycle computes new_listings and delisted_pairs
\* from the fetched set B and the current set A, the two are disjoint and
\* A \cup new_listings = B \cup delisted_pairs.
C12_DiffAlgebra ==
    (CycleSucceeded /\ new_markets_set # cycleStart) =>
        /\ logged_new \cap logged_delisted = {}
        /\ cycleStart.set \cup logged_new
              = new_markets_set.set \cup logged_delisted

\* A cycle in which one ticker was added and another removed.
C12_Witness ==
    /\ CycleSucceeded
    /\ logged_new # {}
    /\ logged_delisted # {}
    /\ pc = "post"

\* C13: no chat ever has more than `retries` posts; a post is only ever
\* issued or awaited for a chat that has not yet answered 200, after
\* exactly send_attempt failed posts to it; every chat before the one being
\* served, and every chat when the function returns, either answered 200 or
\* had exactly `retries` posts; chats not yet served have had none.
C13_BoundedAttemptsPerChat ==
    /\ \A c \in TELEGRAM_CHAT_IDS : attempts[c] <= retries
    /\ pc \in {"post", "retry_sleep"} =>
          /\ ~delivered[chat_idx]
          /\ attempts[chat_idx] = send_attempt + (IF pc = "post" THEN 0 ELSE 1)
          /\ \A c \in TELEGRAM_CHAT_IDS :
                /\ c < chat_idx => delivered[c] \/ attempts[c] = retries
                /\ c > chat_idx => ~delivered[c] /\ attempts[c] = 0
    /\ pc = "send_return" =>
          \A c \in TELEGRAM_CHAT_IDS : delivered[c] \/ attempts[c] = retries

\* The first chat used up its attempts without success; the last one
\* answered 200 to its second attempt and got no third.
C13_Witness ==
    /\ pc = "send_return"
    /\ ~delivered[1]
    /\ attempts[1] = retries
    /\ delivered[NumChats]
    /\ attempts[NumChats] = 2

\* C14: delivery outcomes do not reach the monitor's state.  No step inside
\* send_telegram_message (a post or a retry sleep completing, as opposed to
\* an interrupt) changes current_markets_set, consecutive_errors or
\* new_markets_set, and the step that
\* returns from it sets them, and the place the loop goes on, to values that
\* depend only on the caller: after a listing message current is the
\* fetched set and the cycle sleeps; after an escalation the counter is 0
\* and the cycle backs off; after the startup message the loop starts.
\* Two runs with the same fetch results therefore pass through the same
\* values of current and of the counter whatever the posts answer.
C14_DeliveryIndependent ==
    [][ /\ (pc \in {"post", "retry_sleep"}
              /\ pc' \in {"post", "retry_sleep", "send_return"}
              /\ ret' = ret)
           => UNCHANGED << current_markets_set, consecutive_errors,
                           new_markets_set, message >>
        /\ (pc = "send_return" /\ ret = "update")
           => /\ current_markets_set' = new_markets_set
              /\ pc' = "loop_sleep"
              /\ UNCHANGED << consecutive_errors, new_markets_set >>
        /\ (pc = "send_return" /\ ret = "backoff")
           => /\ consecutive_errors' = 0
              /\ pc' = "backoff_sleep"
              /\ UNCHANGED << current_markets_set, new_markets_set >>
        /\ (pc = "send_return" /\ ret = "loop")
           => /\ consecutive_errors' = 0
              /\ pc' = "loop_fetch"
              /\ UNCHANGED << current_markets_set, new_markets_set >>
      ]_vars

\* The listing message reached no chat and send_telegram_message is about
\* to return False to the loop.
C14_Witness ==
    /\ pc = "send_return"
    /\ ret = "update"
    /\ ~all_successful
    /\ \A c \in TELEGRAM_CHAT_IDS : ~delivered[c] /\ attempts[c] = retries
    /\ current_markets_set # new_markets_set

\* C15: in a cycle whose fetch only removed tickers (delisted_pairs
\* non-empty, nothing added), no message is dispatched by the cycle, the
\* removal is computed for the log, and current is the fetched set from the
\* same step on (so the removed ticker counts as new if fetched again).
C15_RemovalSilentButAdopted ==
    (CycleSucceeded /\ CycleAdded = {}
        /\ cycleStart.set \ new_markets_set.set # {}) =>
        /\ cycleMsgs = << >>
        /\ Sending => InHandler
        /\ logged_delisted = cycleStart.set \ new_markets_set.set
        /\ current_markets_set = new_markets_set

\* Ticker 2 was dropped from {1, 2}; nothing was sent and current is {1}.
C15_Witness ==
    /\ pc = "loop_sleep"
    /\ cycleStart = Some({1, 2})
    /\ new_markets_set = Some({1})
    /\ logged_delisted = {2}
    /\ cycleMsgs = << >>
    /\ current_markets_set = Some({1})

\* C16: bootstrapping issues at most MAX_RETRIES fetches; the first truthy
\* one ends it: from that step on the program is never again in a bootstrap
\* fetch or sleep, the fetches made are the failed ones plus that one,
\* current is that fetched set until the loop's first fetch, and the
\* startup message has been dispatched exactly once, before any loop fetch
\* and before any listing or escalation message.
C16_BootstrapThenStartupOnce ==
    /\ bootFetches <= MAX_RETRIES
    /\ sent_count["startup"] <= 1
    /\ pc \in {"boot_fetch", "boot_sleep"} =>
          /\ sent_count["startup"] = 0
          /\ bootFetches = bootFails
          /\ current_markets_set = None
    /\ sent_count["startup"] = 1 =>
          /\ pc \notin {"boot_fetch", "boot_sleep"}
          /\ bootFetches = bootFails + 1
    /\ (Sending /\ ret = "loop") =>
          /\ sent_count["startup"] = 1
          /\ ever_sent = {"startup"}
          /\ message = Msg("startup", << >>, Cardinality(lastNonEmpty.set))
          /\ ~loopFetches
    /\ (~loopFetches /\ sent_count["startup"] = 1) =>
          /\ Truthy(current_markets_set)
          /\ current_markets_set = lastNonEmpty
    /\ (loopFetches \/ ever_sent \cap {"listing", "escalation"} # {}) =>
          sent_count["startup"] = 1

\* The third bootstrap fetch was the first to succeed; the startup message
\* has been sent and the loop is about to issue its first fetch.
C16_Witness ==
    /\ pc = "loop_fetch"
    /\ ~loopFetches
    /\ bootFetches = MAX_RETRIES
    /\ bootFails = MAX_RETRIES - 1
    /\ sent_count["startup"] = 1
    /\ current_markets_set = lastNonEmpty

\* C17: once an unexpected exception has left the loop body, the crash
\* message has been dispatched exactly once, its error text is the first
\* CRASH_TEXT_LIMIT characters of str(e) at most, the program only sends
\* that message and exits (no fetch, no sleep of the loop), and the stop
\* message is not dispatched; the stop and the crash message are never both
\* dispatched in one execution.
C17_CrashAlertOnceTruncated ==
    /\ sent_count["stop"] + sent_count["crash"] <= 1
    /\ "crash" \in ever_sent =>
          /\ sent_count["crash"] = 1
          /\ sent_count["stop"] = 0
          /\ pc \in {"post", "retry_sleep", "send_return", "exited"}
          /\ Sending =>
                /\ ret = "finally"
                /\ message.kind = "crash"
                /\ message.n <= CRASH_TEXT_LIMIT
                /\ message.n = (IF err_len <= CRASH_TEXT_LIMIT
                                THEN err_len ELSE CRASH_TEXT_LIMIT)
          /\ pc = "exited" =>
                exit_path \in {"crashed", "interrupted_in_handler"}

\* An exception whose text is longer than the limit: the message carrying
\* the truncated text has been sent to every chat.
C17_Witness ==
    /\ pc = "send_return"
    /\ message.kind = "crash"
    /\ err_len > CRASH_TEXT_LIMIT
    /\ message.n = CRASH_TEXT_LIMIT
    /\ exit_path = "crashed"

\* C18: a fetch that returns the empty set is treated as a failed one.  In
\* bootstrapping it counts as a failed attempt and current stays None.  In
\* the loop it is counted in the run of failures, the cycle takes the
\* back-off path (with the escalation message when the run is full), never
\* the comparison, and current stays what it was.  From the startup message
\* on, current is never empty.
C18_EmptySetIsFailure ==
    /\ (sent_count["startup"] = 0 /\ lastFetched = Some({})) =>
          /\ bootFails >= 1
          /\ bootFails = bootFetches
          /\ current_markets_set = None
    /\ (loopFetches /\ new_markets_set = Some({})) =>
          /\ failRun >= 1
          /\ \/ consecutive_errors = failRun
             \/ failRun = max_consecutive_errors /\ EscalatedInCycle
          /\ current_markets_set = cycleStart
          /\ logged_new = {} /\ logged_delisted = {}
          /\ pc # "loop_sleep"
          /\ Sending => ret \in {"backoff", "finally"}
          /\ cycleMsgs # << >> => failRun = max_consecutive_errors
    /\ sent_count["startup"] = 1 => Truthy(current_markets_set)

\* The fetch that filled the run of failures returned the empty set, and
\* the escalation message is being sent.
C18_Witness ==
    /\ pc = "post"
    /\ ret = "backoff"
    /\ new_markets_set = Some({})
    /\ message.kind = "escalation"
    /\ failRun = max_consecutive_errors
    /\ Truthy(current_markets_set)

\* C19: whenever the loop is about to fetch, the counter is in
\* 0 .. max_consecutive_errors - 1; it is never above the threshold; and
\* every escalation message reports exactly the threshold, sent while the
\* counter has that value.
C19_CounterRange ==
    /\ consecutive_errors \in 0..max_consecutive_errors
    /\ pc = "loop_fetch" =>
          consecutive_errors \in 0..(max_consecutive_errors - 1)
    /\ \A i \in 1..Len(cycleMsgs) :
          cycleMsgs[i].kind = "escalation" =>
             cycleMsgs[i].n = max_consecutive_errors
    /\ message.kind = "escalation" =>
          /\ message.n = max_consecutive_errors
          /\ consecutive_errors = max_consecutive_errors

\* The escalation has been sent, the counter was reset and, after the
\* back-off, the next iteration starts with the counter at 0.
C19_Witness ==
    /\ pc = "loop_fetch"
    /\ EscalatedInCycle
    /\ cycleMsgs[1].n = max_consecutive_errors
    /\ consecutive_errors = 0
    /\ failRun = max_consecutive_errors

\* C20: in a run without interrupt or crash in which loop fetches do not
\* fail for ever, a ticker that the exchange lists from some moment on and
\* that is not in current while the loop runs is eventually named by a
\* listing message, and no ticker is named more than once while it stays
\* listed.
C20_ListingEventuallyAnnouncedOnce ==
    /\ [](\A t \in Tickers : announced_times[t] <= 1)
    /\ (sent_count["startup"] = 1 /\ pc # "exited"
           /\ \E t \in pinned : t \notin current_markets_set.set)
       ~> (\A t \in pinned : announced_times[t] = 1)

\* A ticker that became listed during a run of failed fetches is named by
\* the listing message of the fetch that ended the run.
C20_Witness ==
    /\ pc = "post"
    /\ ret = "update"
    /\ afterFailures
    /\ \E t \in pinned :
          /\ announced_times[t] = 1
          /\ t \in Named(message)
          /\ t \notin current_markets_set.set
====
